---- MODULE Spec2Model ----
(***************************************************************************)
(* Experience caches of adeptRL: the on-policy rollout cache               *)
(* (adept/expcaches/rollout.py, class ACRollout) and the off-policy replay *)
(* cache (adept/expcaches/replay.py, class ExperienceReplay).              *)
(*                                                                         *)
(* An agent owns one cache, of one of the two classes; `constructed` names *)
(* the class.  The variables of the other class keep their idle values.    *)
(*                                                                         *)
(* Further: the V-trace returns of adept/learner/impala.py (ImpalaLearner) *)
(* and the Learner and Worker containers of                                *)
(* adept/container/workerlearner.py, and the training loop Local.run of    *)
(* adept/container/local.py, which drives a rollout cache; `constructed`   *)
(* names the object a behaviour is about.                                  *)
(***************************************************************************)
EXTENDS Integers, Sequences, FiniteSets, TLC

(* ------------------------------ bounds -------------------------------- *)
\* largest horizon nb_rollout handed to ACRollout.__init__
MaxRollout == 2
\* no list of the rollout cache grows beyond one element more than the largest
\* horizon: is_ready() is seen below, at and above the horizon
MaxLen == MaxRollout + 1
\* write_env calls made on a replay cache (its readiness threshold is 100)
MaxInserted == 103
\* longest trajectory handed to _vtrace_returns
MaxSteps == 2
\* most workers attached to a learner, largest configured nb_learn_batch,
\* and the cycles (sync_exps, step) a driver runs
MaxWorkers == 3
MaxLearnBatch == 5
MaxCycles == 3
\* the calls of each method a driver makes on a Worker
MaxWorkerCalls == 2
\* the iterations of the loop of Local.run (max_steps over nb_env)
MaxIterations == 4

VARIABLES
    constructed,    \* the class of the object: "ACRollout", "ExperienceReplay",
                    \* "ImpalaLearner", "Learner", "Worker" or "Local"
    \* ---- ACRollout (a dict of lists) ----
    rollout,        \* the dict itself: field name -> list (a sequence)
    nb_rollout,     \* self.nb_rollout
    last_call,      \* name of the last method called on the cache
    raised,         \* exception that call ended with, or "none"
    unknown_key,    \* history: that call was a write_forward on a rollout
                    \* cache whose mapping held an undeclared field name
    snap,           \* the record returned by the last read(), or NoSnap
    snap_at_read,   \* history: what that record held when read() returned
    env_log,        \* history: arguments of the write_env calls since clear()
    fwd_appended,   \* history: fields write_forward appended to since clear()
    forwarded,      \* history: the keys the mapping of the last call named
                    \* before its first undeclared key, if that call was a
                    \* write_forward on a rollout cache and had such a key
    \* ---- ExperienceReplay (a dict of arrays) ----
    nb_env,         \* self.nb_env
    max_len,        \* self.max_len: the capacity per environment
    batch_size,     \* self.batch_size
    rollout_len,    \* self.rollout_len
    current_index,  \* self._current_index: the write cursor
    num_inserted,   \* self._num_inserted
    keys,           \* the keys of the dict
    store,          \* slot -> the transition write_env put there, 0 if none
    cached_rollout, \* self._cached_rollout: the pre-fetch queue
    thread_pc,      \* where the thread running _cache_loop stands
    thread_sample,  \* the indices _read drew in that thread, or NoBatch
    thread_raised,  \* the exception that ended the thread, or "none"
    ret,            \* what the caller's last call returned if it was a
                    \* read(), else NoBatch
    \* ---- ImpalaLearner._vtrace_returns (a static, pure method) ----
    vt_args,        \* the arguments of the call
    vt_ret,         \* what the call returned, NoReturn before it and when
                    \* it raised
    \* ---- Learner (container/workerlearner.py) ----
    learner_args,   \* the arguments of Learner.__init__
    learner,        \* the fields of the Learner, NoLearner before __init__
    learner_pc,     \* where the running Learner.step stands, or "idle"
    recvs,          \* the asynchronous receives sync_exps has started
    learner_log,    \* history: warnings, optimizer steps, the last merge
    \* ---- Worker (container/workerlearner.py) ----
    worker,         \* the fields of the Worker, NoWorker if there is none
    worker_pc,      \* where the running Worker.step stands, or "idle"
    wire,           \* the asynchronous transfers the worker has started
    worker_log,     \* history: calls made, transfers pending at an act
    \* ---- Local (container/local.py) ----
    local,          \* the locals of Local.run and its history, NoLocal if
                    \* no Local runs
    local_pc        \* where Local.run stands

rolloutVars == <<rollout, nb_rollout, snap, snap_at_read, env_log,
                 fwd_appended, forwarded>>

replayConfig == <<nb_env, max_len, batch_size, rollout_len>>
replayData == <<current_index, num_inserted, keys, store>>
replayThread == <<thread_pc, thread_sample, thread_raised>>
replayVars == <<replayConfig, replayData, cached_rollout, replayThread, ret>>

vtraceVars == <<vt_args, vt_ret>>
\* the state outside the two caches
learnerVars == <<learner_args, learner, learner_pc, recvs, learner_log>>
workerVars == <<worker, worker_pc, wire, worker_log>>
localVars == <<local, local_pc>>
impalaVars == <<vtraceVars, learnerVars, workerVars, localVars>>

vars == <<constructed, last_call, raised, unknown_key, rolloutVars,
         replayVars, impalaVars>>

(* --------------------------- ACRollout --------------------------------- *)
\* no record is held: a record without fields
NoSnap == [none |-> TRUE]
\* no batch is held
NoBatch == [none |-> TRUE]

\* no call of _vtrace_returns has returned
NoReturn == [none |-> TRUE]
\* the values the variables outside the caches keep while a cache is modelled
VtraceIdle ==
    /\ vt_args = NoReturn /\ vt_ret = NoReturn
\* no Learner has been constructed
NoLearner == [none |-> TRUE]
LearnerIdle ==
    /\ learner_args = NoLearner /\ learner = NoLearner
    /\ learner_pc = "none" /\ recvs = NoLearner
    /\ learner_log = NoLearner
NoWorker == [none |-> TRUE]
WorkerIdle ==
    /\ worker = NoWorker /\ worker_pc = "none"
    /\ wire = NoWorker /\ worker_log = NoWorker
NoLocal == [none |-> TRUE]
LocalIdle ==
    /\ local = NoLocal /\ local_pc = "none"
ImpalaIdle ==
    /\ VtraceIdle
    /\ LearnerIdle
    /\ WorkerIdle
    /\ LocalIdle

\* the values the variables of ExperienceReplay keep while the cache is an
\* ACRollout
ReplayIdle ==
    /\ nb_env = 0 /\ max_len = 0 /\ batch_size = 0 /\ rollout_len = 0
    /\ current_index = 0 /\ num_inserted = 0
    /\ keys = {} /\ store = << >>
    /\ cached_rollout = << >>
    /\ thread_pc = "none" /\ thread_sample = NoBatch
    /\ thread_raised = "none"
    /\ ret = NoBatch

\* the values the variables of ACRollout keep while the cache is an
\* ExperienceReplay
RolloutIdle ==
    /\ rollout = << >> /\ nb_rollout = 0
    /\ snap = NoSnap /\ snap_at_read = NoSnap
    /\ env_log = << >> /\ fwd_appended = {}
    /\ forwarded = {}
KeyErrorRollout == "KeyError: Incompatible rollout key"

\* the six fields __init__ declares, each an empty list
RolloutFields == {"states", "rewards", "terminals", "values", "log_probs",
                  "entropies"}

Min(a, b) == IF a < b THEN a ELSE b
Max(a, b) == IF a > b THEN a ELSE b

\* The reward normalizer is a collaborator handed to the constructor; the
\* clipping normalizer is modelled: each reward is clipped to [-1, 1].
reward_normalizer(rewards) ==
    [i \in DOMAIN rewards |-> Max(-1, Min(1, rewards[i]))]

ACRollout_init(n) ==
    /\ constructed = "ACRollout"
    /\ rollout = [k \in RolloutFields |-> << >>]
    /\ nb_rollout = n
    /\ last_call = "__init__"
    /\ raised = "none"
    /\ unknown_key = FALSE
    /\ snap = NoSnap
    /\ snap_at_read = NoSnap
    /\ env_log = << >>
    /\ fwd_appended = {}
    /\ forwarded = {}
    /\ ReplayIdle
    /\ ImpalaIdle

\* variant: a length taken from the 'values' list
LenValuesMutant(c) == Len(c["values"])
\* __len__: the length of the 'rewards' list
ACRollout_len(c) == Len(c["rewards"])

\* variant: ready only past the horizon
IsReadyPastHorizon(c, n) == ACRollout_len(c) > n
\* is_ready(): the length EQUALS the horizon
ACRollout_is_ready(c, n) == ACRollout_len(c) = n

\* The loop of write_forward over experience.items(), an ordered mapping given
\* as a sequence of <<key, value>> pairs: the pairs before the first unknown
\* key are appended, the unknown key raises.
RECURSIVE ForwardLoop(_, _, _)
ForwardLoop(c, experience, done) ==
    IF experience = << >>
    THEN [cache |-> c, raised |-> "none", appended |-> done]
    ELSE LET k == Head(experience)[1]
             v == Head(experience)[2]
         IN  IF k \notin DOMAIN c
             THEN [cache |-> c, raised |-> KeyErrorRollout, appended |-> done]
             ELSE ForwardLoop([c EXCEPT ![k] = Append(@, v)],
                              Tail(experience), done \cup {k})

\* variant: a loop that passes over an unknown key
RECURSIVE ForwardLoopSkipUnknown(_, _, _)
ForwardLoopSkipUnknown(c, experience, done) ==
    IF experience = << >>
    THEN [cache |-> c, raised |-> "none", appended |-> done]
    ELSE LET k == Head(experience)[1]
             v == Head(experience)[2]
         IN  IF k \notin DOMAIN c
             THEN ForwardLoopSkipUnknown(c, Tail(experience), done)
             ELSE ForwardLoopSkipUnknown([c EXCEPT ![k] = Append(@, v)],
                                         Tail(experience), done \cup {k})

\* variant: a write_forward that checks every key before it appends anything
WriteForwardValidatesFirst(c, experience) ==
    IF \E j \in 1 .. Len(experience) : experience[j][1] \notin DOMAIN c
    THEN [cache |-> c, raised |-> KeyErrorRollout, appended |-> {}]
    ELSE ForwardLoop(c, experience, {})

WriteForwardSkipUnknown(c, experience) ==
    ForwardLoopSkipUnknown(c, experience, {})
WriteForwardResult(c, experience) == ForwardLoop(c, experience, {})

AllWithin(c) == \A k \in DOMAIN c : Len(c[k]) <= MaxLen

ACRollout_write_forward(experience) ==
    /\ constructed = "ACRollout"
    /\ LET r == WriteForwardResult(rollout, experience)
       IN  /\ AllWithin(r.cache)
           /\ rollout' = r.cache
           /\ raised' = r.raised
           /\ fwd_appended' = fwd_appended \cup r.appended
    /\ last_call' = "write_forward"
    /\ forwarded' = IF \A i \in 1 .. Len(experience) :
                            experience[i][1] \in DOMAIN rollout
                     THEN {}
                     ELSE {experience[i][1] : i \in
                             {j \in 1 .. Len(experience) : \A h \in 1 .. j :
                                  experience[h][1] \in DOMAIN rollout}}
    /\ unknown_key' = \E i \in 1 .. Len(experience) :
                            experience[i][1] \notin DOMAIN rollout
    /\ UNCHANGED <<constructed, impalaVars,
                   replayVars, nb_rollout, snap, snap_at_read,
                   env_log>>

\* variant: the rewards appended as given
WriteEnvRaw(c, obs, rewards, terminals) ==
    [c EXCEPT !["states"] = Append(@, obs),
              !["rewards"] = Append(@, rewards),
              !["terminals"] = Append(@, terminals)]
\* write_env: the rewards go through the normalizer, then one entry is
\* appended to each of states, rewards, terminals
WriteEnvResult(c, obs, rewards, terminals) ==
    [c EXCEPT !["states"] = Append(@, obs),
              !["rewards"] = Append(@, reward_normalizer(rewards)),
              !["terminals"] = Append(@, terminals)]

ACRollout_write_env(obs, rewards, terminals) ==
    /\ constructed = "ACRollout"
    /\ LET c == WriteEnvResult(rollout, obs, rewards, terminals)
       IN  /\ AllWithin(c)
           /\ rollout' = c
    /\ last_call' = "write_env"
    /\ unknown_key' = FALSE
    /\ raised' = "none"
    /\ env_log' = Append(env_log, [obs |-> obs, rewards |-> rewards,
                                   terminals |-> terminals])
    /\ forwarded' = {}
    /\ UNCHANGED <<constructed, impalaVars,
                   replayVars, nb_rollout, snap, snap_at_read,
                   fwd_appended>>

\* read() builds a namedtuple whose fields ARE the cache's list objects (no
\* copy).  A field of the record is modelled as [alias, frozen]: while alias
\* is TRUE the record's list is the list the cache holds under that key, and
\* its contents are the cache's; once the cache rebinds the key (clear), the
\* record keeps the old list, whose contents are `frozen`.
ReadResult(c) == [k \in DOMAIN c |-> [alias |-> TRUE, frozen |-> << >>]]

\* the contents, now, of the lists a record returned by read() holds
Contents(record, c) ==
    [k \in DOMAIN record |->
        IF record[k].alias THEN c[k] ELSE record[k].frozen]

ACRollout_read ==
    /\ constructed = "ACRollout"
    /\ snap' = ReadResult(rollout)
    /\ snap_at_read' = rollout
    /\ last_call' = "read"
    /\ forwarded' = {}
    /\ unknown_key' = FALSE
    /\ raised' = "none"
    /\ UNCHANGED <<constructed, impalaVars,
                   replayVars, rollout, nb_rollout, env_log,
                   fwd_appended>>

\* clear(): self[k] = [] for every key: each key is bound to a NEW list; a
\* list the cache held before lives on in any record that holds it.
Detach(record, c) ==
    IF record = NoSnap THEN NoSnap
    ELSE [k \in DOMAIN record |->
            [alias |-> FALSE, frozen |-> Contents(record, c)[k]]]

\* variant: the lists emptied in place (list.clear()), the keys not rebound
ClearInPlace(c, record) ==
    [cache |-> [k \in DOMAIN c |-> << >>], record |-> record]
\* variant: one field left as it is
ClearSkipsValues(c, record) ==
    [cache |-> [k \in DOMAIN c |-> IF k = "values" THEN c[k] ELSE << >>],
     record |-> Detach(record, c)]
ClearResult(c, record) ==
    [cache |-> [k \in DOMAIN c |-> << >>], record |-> Detach(record, c)]

ACRollout_clear ==
    /\ constructed = "ACRollout"
    /\ LET r == ClearResult(rollout, snap)
       IN  /\ rollout' = r.cache
           /\ snap' = r.record
    /\ last_call' = "clear"
    /\ unknown_key' = FALSE
    /\ raised' = "none"
    /\ env_log' = << >>
    /\ fwd_appended' = {}
    /\ forwarded' = {}
    /\ UNCHANGED <<constructed, impalaVars,
                   replayVars, nb_rollout, snap_at_read>>

(* ----------------------- inputs of the rollout cache ------------------- *)
\* Steps of two parallel environments, <<observation, rewards, terminals>>.
\* Every two of the three components occur in all four combinations, so that a
\* list filled from the wrong argument, or shifted against another, shows.
EnvSteps == { <<"oa", <<1, 0>>, <<FALSE, FALSE>> >>,
              <<"oa", <<0, 3>>, <<FALSE, TRUE>> >>,
              <<"ob", <<1, 0>>, <<FALSE, TRUE>> >>,
              <<"ob", <<0, 3>>, <<FALSE, FALSE>> >> }

\* field names a caller may put into the experience mapping: an auxiliary
\* field, fields that write_env also fills, and a name __init__ never declared
ExperienceKeys == {"values", "rewards", "terminals", "bogus"}
\* the value under every key: a tensor the actor computed, here of one entry
ForwardValue == <<7>>

\* ordered mappings of at most two distinct keys
Experiences ==
    {<< >>}
    \cup {<< <<k, ForwardValue>> >> : k \in ExperienceKeys}
    \cup {<< <<p[1], ForwardValue>>, <<p[2], ForwardValue>> >> :
            p \in {q \in ExperienceKeys \X ExperienceKeys : q[1] # q[2]}}

\* The caller lets go of the record read() gave it: every caller of read() in
\* the repository hands the record straight to compute_loss and keeps no
\* reference to it.
DiscardRecord ==
    /\ constructed = "ACRollout"
    /\ snap # NoSnap
    /\ snap' = NoSnap
    /\ snap_at_read' = NoSnap
    /\ UNCHANGED <<constructed, impalaVars,
                   replayVars, last_call, raised, unknown_key,
                   rollout, nb_rollout,
                   env_log, fwd_appended, forwarded>>

InitRollout == \E n \in 1 .. MaxRollout : ACRollout_init(n)

\* The rollout cache under every order of calls, the record of a read() being
\* let go of before the next call on the cache.
NextRollout ==
    \/ /\ snap = NoSnap
       /\ \/ \E e \in Experiences : ACRollout_write_forward(e)
          \/ \E s \in EnvSteps : ACRollout_write_env(s[1], s[2], s[3])
          \/ ACRollout_clear
    \/ ACRollout_read
    \/ DiscardRecord

SpecRollout == InitRollout /\ [][NextRollout]_vars

\* The rollout cache with a caller that KEEPS the record of its last read()
\* while it goes on calling the cache, over fewer inputs.
AliasSteps == { <<"oa", <<1, 0>>, <<FALSE, FALSE>> >>,
                <<"ob", <<0, 3>>, <<FALSE, TRUE>> >> }
AliasExperiences == { << <<"values", ForwardValue>> >> }

InitAlias == ACRollout_init(MaxRollout)

NextAlias ==
    \/ \E e \in AliasExperiences : ACRollout_write_forward(e)
    \/ \E s \in AliasSteps : ACRollout_write_env(s[1], s[2], s[3])
    \/ ACRollout_clear
    \/ ACRollout_read

SpecAlias == InitAlias /\ [][NextAlias]_vars

(* ------------------------- ExperienceReplay ----------------------------- *)
\* self.min_length and self.max_cache, set in __init__
min_length == 100
max_cache == 5

ValueErrorRandint == "ValueError: low >= high"
KeyErrorObs == "KeyError: 'obs'"
KeyErrorInternals == "KeyError: 'internals'"

\* Constructor arguments.  max_len is the argument of that name, the number of
\* transitions over all environments; the capacity per environment is
\* max_len // nb_env: 5, 4 and 3 here.  Every configuration has a capacity of
\* at least one slot (the modulo of write_env needs it).
ReplayConfigs ==
    { [nb_env |-> 1, batch_size |-> 1, rollout_len |-> 1, max_len |-> 5],
      [nb_env |-> 2, batch_size |-> 2, rollout_len |-> 1, max_len |-> 8],
      [nb_env |-> 1, batch_size |-> 1, rollout_len |-> 1, max_len |-> 3],
      [nb_env |-> 1, batch_size |-> 1, rollout_len |-> 2, max_len |-> 6] }

ExperienceReplay_init(cfg) ==
    /\ constructed = "ExperienceReplay"
    /\ last_call = "__init__"
    /\ raised = "none"
    /\ unknown_key = FALSE
    /\ keys = {"rewards", "terminals"}
    /\ nb_env = cfg.nb_env
    /\ max_len = cfg.max_len \div cfg.nb_env
    /\ batch_size = cfg.batch_size
    /\ rollout_len = cfg.rollout_len
    /\ store = [i \in 0 .. (cfg.max_len \div cfg.nb_env) - 1 |-> 0]
    /\ cached_rollout = << >>
    /\ current_index = 0
    /\ num_inserted = 0
    /\ thread_pc = "while_not_ready"
    /\ thread_sample = NoBatch
    /\ thread_raised = "none"
    /\ ret = NoBatch
    /\ RolloutIdle
    /\ ImpalaIdle

\* is_ready()
ExperienceReplay_is_ready(n) == n > min_length

\* variant: the capacity, whatever has been inserted
LenIsCapacity(n, capacity) == capacity
\* __len__
ExperienceReplay_len(n, capacity) == Min(n, capacity)

\* the keyword arguments of a write_forward call: those of Acer.act, and a set
\* that brings the two keys _read looks up for the bootstrap sample
AcerKwargs == {"log_probs", "actions", "internals"}
KwargSets == {AcerKwargs, {"obs", "internals"}}

\* write_forward(**kwargs): an array is created under every new key and the
\* value is stored at the write cursor.  The arrays of these keys are not
\* held in the model, only the keys: no claim reads their entries.
ExperienceReplay_write_forward(kwargs) ==
    /\ constructed = "ExperienceReplay"
    /\ keys' = keys \cup kwargs
    /\ last_call' = "write_forward"
    /\ unknown_key' = FALSE
    /\ ret' = NoBatch
    /\ raised' = "none"
    /\ UNCHANGED <<constructed, impalaVars,
                   rolloutVars, replayConfig, current_index,
                   num_inserted, store, cached_rollout, replayThread>>

\* the observation mapping has one channel, 'frame', kept under 'obs-frame'
ObsKeys == {"obs-frame"}

\* variant: a cursor that does not wrap
AdvanceNoWrap(index, capacity) == index + 1
\* the cursor after a write
Advance(index, capacity) == (index + 1) % capacity

\* write_env(obs, rewards, terminals, infos): observation, rewards and
\* terminal mask go to slot _current_index of their arrays, then the cursor
\* advances.  `transition` stands for the three of them: the caller hands in
\* the transitions of its environment steps, numbered from 1.
ExperienceReplay_write_env(transition) ==
    /\ constructed = "ExperienceReplay"
    /\ num_inserted < MaxInserted
    /\ keys' = keys \cup ObsKeys
    /\ store' = [store EXCEPT ![current_index] = transition]
    /\ current_index' = Advance(current_index, max_len)
    /\ num_inserted' = num_inserted + 1
    /\ last_call' = "write_env"
    /\ unknown_key' = FALSE
    /\ ret' = NoBatch
    /\ raised' = "none"
    /\ UNCHANGED <<constructed, impalaVars,
                   rolloutVars, replayConfig, cached_rollout,
                   replayThread>>

\* variant: a clear() that sends the cursor back to slot 0
ClearResetsCursor(index) == 0
\* clear() is `pass`: the cursor stays
ClearCursor(index) == index

ExperienceReplay_clear ==
    /\ constructed = "ExperienceReplay"
    /\ current_index' = ClearCursor(current_index)
    /\ last_call' = "clear"
    /\ unknown_key' = FALSE
    /\ ret' = NoBatch
    /\ raised' = "none"
    /\ UNCHANGED <<constructed, impalaVars,
                   rolloutVars, replayConfig, num_inserted, keys,
                   store, cached_rollout, replayThread>>

\* variant: no margin of two slots
MaxIndNoMargin(length, horizon) == length - horizon
\* _read, first half: max_ind and the indices drawn from [0, max_ind)
MaxInd(length, horizon) == length - 2 - horizon

\* np.random.randint(0, max_ind, size=batch_size): every tuple of batch_size
\* numbers of 0 .. max_ind - 1; none (ValueError) when max_ind <= 0
StartIndexes(max_ind, size) == [1 .. size -> 0 .. max_ind - 1]

\* what _read has in hand once the indices are drawn; length is len(self) as
\* _read saw it
Sampled(start_indexes, length) ==
    [start_indexes |-> start_indexes,
     end_indexes |-> [i \in DOMAIN start_indexes |->
                        start_indexes[i] + rollout_len],
     length |-> length]

\* variant: the bootstrap sample taken at end_indexes
GatheredLastAtEnd(sample, slots) ==
    [start_indexes |-> sample.start_indexes,
     end_indexes |-> sample.end_indexes,
     length |-> sample.length,
     window |-> [i \in DOMAIN sample.start_indexes |->
                   [j \in 1 .. rollout_len |->
                       slots[sample.start_indexes[i] + j - 1]]],
     last |-> [i \in DOMAIN sample.end_indexes |->
                   slots[sample.end_indexes[i]]]]
\* _read, the gathers: take() over flat_indexes, the slots start .. end - 1
\* of every window, and take_single() at end_indexes + 1; a batch holds, for
\* every slot it took, the transition the slot held then
Gathered(sample, slots) ==
    [start_indexes |-> sample.start_indexes,
     end_indexes |-> sample.end_indexes,
     length |-> sample.length,
     window |-> [i \in DOMAIN sample.start_indexes |->
                   [j \in 1 .. rollout_len |->
                       slots[sample.start_indexes[i] + j - 1]]],
     last |-> [i \in DOMAIN sample.end_indexes |->
                   slots[sample.end_indexes[i] + 1]]]

\* _read, second half: the gathers; self['obs'] and self['internals'] raise
\* KeyError when the dict has no such key
GatherRaises(ks) ==
    IF "obs" \notin ks THEN KeyErrorObs
    ELSE IF "internals" \notin ks THEN KeyErrorInternals
    ELSE "none"

\* read() of the caller: the oldest pre-fetched batch when the queue holds
\* more than one, else _read in the caller's own thread
ExperienceReplay_read ==
    /\ constructed = "ExperienceReplay"
    /\ last_call' = "read"
    /\ unknown_key' = FALSE
    /\ IF Len(cached_rollout) > 1
       THEN /\ ret' = Head(cached_rollout)
            /\ cached_rollout' = Tail(cached_rollout)
            /\ raised' = "none"
       ELSE /\ UNCHANGED cached_rollout
            /\ LET length == ExperienceReplay_len(num_inserted, max_len)
                   max_ind == MaxInd(length, rollout_len)
               IN  IF max_ind <= 0
                   THEN raised' = ValueErrorRandint /\ ret' = NoBatch
                   ELSE IF GatherRaises(keys) # "none"
                   THEN raised' = GatherRaises(keys) /\ ret' = NoBatch
                   ELSE /\ raised' = "none"
                        /\ \E st \in StartIndexes(max_ind, batch_size) :
                                ret' = Gathered(Sampled(st, length), store)
    /\ UNCHANGED <<constructed, impalaVars,
                   rolloutVars, replayConfig, replayData,
                   replayThread>>

\* _cache_loop, `while not self.is_ready(): time.sleep(1)`: the thread moves
\* on once the cache is ready
CacheLoop_becomes_ready ==
    /\ constructed = "ExperienceReplay"
    /\ thread_pc = "while_not_ready"
    /\ ExperienceReplay_is_ready(num_inserted)
    /\ thread_pc' = "while_true"
    /\ UNCHANGED <<constructed, impalaVars,
                   last_call, raised, unknown_key, rolloutVars,
                   replayConfig, replayData, cached_rollout, thread_sample,
                   thread_raised, ret>>

\* variant: the producer also fills a queue that is at its depth
QueueHasRoomAtDepth(queue) == Len(queue) <= max_cache
\* _cache_loop, `if len(self._cached_rollout) < self.max_cache:`
QueueHasRoom(queue) == Len(queue) < max_cache

\* _cache_loop, the test of the queue's depth and the first half of the _read
\* it calls; an exception ends the thread
CacheLoop_sample ==
    /\ constructed = "ExperienceReplay"
    /\ thread_pc = "while_true"
    /\ QueueHasRoom(cached_rollout)
    /\ LET length == ExperienceReplay_len(num_inserted, max_len)
           max_ind == MaxInd(length, rollout_len)
       IN  IF max_ind <= 0
           THEN /\ thread_pc' = "dead"
                /\ thread_raised' = ValueErrorRandint
                /\ UNCHANGED thread_sample
           ELSE /\ thread_pc' = "in_read"
                /\ \E st \in StartIndexes(max_ind, batch_size) :
                        thread_sample' = Sampled(st, length)
                /\ UNCHANGED thread_raised
    /\ UNCHANGED <<constructed, impalaVars,
                   last_call, raised, unknown_key, rolloutVars,
                   replayConfig, replayData, cached_rollout, ret>>

\* the second half of that _read, and the append of its batch to the queue
CacheLoop_append ==
    /\ constructed = "ExperienceReplay"
    /\ thread_pc = "in_read"
    /\ IF GatherRaises(keys) # "none"
       THEN /\ thread_pc' = "dead"
            /\ thread_raised' = GatherRaises(keys)
            /\ UNCHANGED cached_rollout
       ELSE /\ thread_pc' = "while_true"
            /\ cached_rollout' =
                    Append(cached_rollout, Gathered(thread_sample, store))
            /\ UNCHANGED thread_raised
    /\ thread_sample' = NoBatch
    /\ UNCHANGED <<constructed, impalaVars,
                   last_call, raised, unknown_key, rolloutVars,
                   replayConfig, replayData, ret>>

InitReplay == \E cfg \in ReplayConfigs : ExperienceReplay_init(cfg)

\* the caller's calls in every order, interleaved with the steps of the thread
NextReplay ==
    \/ \E kwargs \in KwargSets : ExperienceReplay_write_forward(kwargs)
    \/ ExperienceReplay_write_env(num_inserted + 1)
    \/ ExperienceReplay_read
    \/ ExperienceReplay_clear
    \/ CacheLoop_becomes_ready
    \/ CacheLoop_sample
    \/ CacheLoop_append

SpecReplay == InitReplay /\ [][NextReplay]_vars

\* the thread is scheduled fairly: a step of _cache_loop that stays possible
\* is taken.  Nothing is assumed of the caller.
FairCacheLoop ==
    /\ WF_vars(CacheLoop_becomes_ready)
    /\ WF_vars(CacheLoop_sample)
    /\ WF_vars(CacheLoop_append)

SpecReplayFair == SpecReplay /\ FairCacheLoop

\* an agent with a cache of either class
SpecCaches ==
    (InitRollout \/ InitReplay) /\ [][NextRollout \/ NextReplay]_vars

(* --------------------------- ImpalaLearner ----------------------------- *)
\* Tensor entries are modelled as exact rationals <<n, d>> in lowest terms
\* with d > 0; the rounding of floating point is outside the model.
RECURSIVE GCD(_, _)
GCD(a, b) == IF b = 0 THEN a ELSE GCD(b, a % b)

Abs(a) == IF a < 0 THEN -a ELSE a

Rat(n, d) ==
    LET sign == IF d < 0 THEN -1 ELSE 1
        g == GCD(Abs(n), Abs(d))
    IN  <<(sign * n) \div g, (sign * d) \div g>>

RAdd(a, b) == Rat(a[1] * b[2] + b[1] * a[2], a[2] * b[2])
RSub(a, b) == Rat(a[1] * b[2] - b[1] * a[2], a[2] * b[2])
RMul(a, b) == Rat(a[1] * b[1], a[2] * b[2])
RLess(a, b) == a[1] * b[2] < b[1] * a[2]
RZero == <<0, 1>>
ROne == <<1, 1>>

\* tensor.clamp(max=ceiling)
ClampMax(a, ceiling) == IF RLess(ceiling, a) THEN ceiling ELSE a

\* torch.exp; a log-probability difference is held as the integer k of
\* k * ln 2
Exp(k) == IF k >= 0 THEN <<2 ^ k, 1>> ELSE <<1, 2 ^ (-k)>>

RECURSIVE RSum(_)
RSum(xs) == IF xs = << >> THEN RZero ELSE RAdd(Head(xs), RSum(Tail(xs)))

\* tensor.mean(-1): the mean over the actions of one step
Mean(xs) == RMul(RSum(xs), <<1, Len(xs)>>)

RECURSIVE Reversed(_)
Reversed(xs) ==
    IF xs = << >> THEN << >> ELSE Append(Reversed(Tail(xs)), Head(xs))

\* the default of the argument `discount` is 0.99; the model takes a
\* discount strictly between 0 and 1 that its rationals hold exactly
discount == <<1, 2>>

\* compute_loss: r_dterminal_masks = discount * (1 - terminals)
DiscountTerminalMask(terminals) ==
    [t \in DOMAIN terminals |-> RMul(discount, RSub(ROne, terminals[t]))]

\* importance = torch.exp(log_prob_diffs), one entry per step and action
Importance(log_prob_diffs) ==
    [t \in DOMAIN log_prob_diffs |->
        [a \in DOMAIN log_prob_diffs[t] |-> Exp(log_prob_diffs[t][a])]]

\* variant: the ratios are not clamped
UnclampedImportanceValue(importance, dim, ceiling) ==
    [t \in DOMAIN importance |->
        IF dim = 3 THEN Mean(importance[t]) ELSE importance[t][1]]
\* clamped_importance_value: clamped at the ceiling, and with an action
\* dimension (dim() == 3) averaged over the actions
ClampedImportanceValue(importance, dim, ceiling) ==
    LET clamped == [t \in DOMAIN importance |->
                      [a \in DOMAIN importance[t] |->
                          ClampMax(importance[t][a], ceiling)]]
    IN  [t \in DOMAIN importance |->
            IF dim = 3 THEN Mean(clamped[t]) ELSE clamped[t][1]]

\* variant: the sequence is not shifted
NoShift(xs, estimated_value) == xs
\* torch.cat((xs[1:], estimated_value.unsqueeze(0)))
ShiftInBootstrap(xs, estimated_value) == Tail(xs) \o <<estimated_value>>

\* diff_value_per_step
DiffValuePerStep(civ, rewards, mask, values, estimated_value) ==
    LET values_t_plus_1 == ShiftInBootstrap(values, estimated_value)
    IN  [t \in DOMAIN rewards |->
            RMul(civ[t],
                 RSub(RAdd(rewards[t], RMul(mask[t], values_t_plus_1[t])),
                      values[t]))]

\* variant: only one clamp is looked at
PolicyClampOnly(minimum_importance_value, minimum_importance_policy) ==
    minimum_importance_policy # ROne
\* `if minimum_importance_policy != 1 or minimum_importance_value != 1`
NotImplemented(minimum_importance_value, minimum_importance_policy) ==
    minimum_importance_policy # ROne \/ minimum_importance_value # ROne

\* variant: the recursion runs through terminal steps
NstepIgnoresMask(diff_i, mask_i, civ_i, nstep_v) ==
    RAdd(diff_i, RMul(civ_i, nstep_v))
\* one turn of the loop: nstep_v = diff[i] + mask[i] * civ[i] * nstep_v
Nstep(diff_i, mask_i, civ_i, nstep_v) ==
    RAdd(diff_i, RMul(RMul(mask_i, civ_i), nstep_v))

\* `for i in reversed(range(T))`: i runs from the last step to the first,
\* each nstep_v is appended to vs_minus_v_xs
RECURSIVE ReversedLoop(_, _, _, _, _, _)
ReversedLoop(diff, mask, civ, i, nstep_v, vs_minus_v_xs) ==
    IF i = 0 THEN vs_minus_v_xs
    ELSE LET next == Nstep(diff[i], mask[i], civ[i], nstep_v)
         IN  ReversedLoop(diff, mask, civ, i - 1, next,
                          Append(vs_minus_v_xs, next))

\* _vtrace_returns from the loop on: v_s, the weighted advantage and the
\* importance
VtraceResult(a) ==
    LET T == Len(a.rewards)
        importance == Importance(a.log_prob_diffs)
        civ == ClampedImportanceValue(importance, a.dim,
                                      a.minimum_importance_value)
        diff == DiffValuePerStep(civ, a.rewards, a.discount_terminal_mask,
                                 a.values, a.estimated_value)
        vs_minus_v_xs ==
            Reversed(ReversedLoop(diff, a.discount_terminal_mask, civ, T,
                                  RZero, << >>))
        v_s == [t \in 1 .. T |-> RAdd(a.values[t], vs_minus_v_xs[t])]
        v_s_tp1 == ShiftInBootstrap(v_s, a.estimated_value)
        advantage ==
            [t \in 1 .. T |->
                RSub(RAdd(a.rewards[t],
                          RMul(a.discount_terminal_mask[t], v_s_tp1[t])),
                     a.values[t])]
        weighted_advantage ==
            [t \in 1 .. T |->
                [k \in DOMAIN importance[t] |->
                    RMul(ClampMax(importance[t][k],
                                  a.minimum_importance_policy),
                         advantage[t])]]
    IN  [v_s |-> v_s,
         weighted_advantage |-> weighted_advantage,
         importance |-> importance]

\* the call: it raises NotImplementedError unless both clamps are 1
ImpalaLearner_vtrace_returns ==
    /\ constructed = "ImpalaLearner"
    /\ last_call = "__init__"
    /\ last_call' = "_vtrace_returns"
    /\ IF NotImplemented(vt_args.minimum_importance_value,
                         vt_args.minimum_importance_policy)
       THEN raised' = "NotImplementedError" /\ vt_ret' = NoReturn
       ELSE raised' = "none" /\ vt_ret' = VtraceResult(vt_args)
    /\ UNCHANGED <<constructed, localVars, unknown_key, rolloutVars, replayVars,
                   vt_args, learnerVars, workerVars>>

\* entries of the argument tensors
RewardEntries == {RZero, ROne}
ValueEntries == {RZero, <<2, 1>>}
EstimatedValues == {ROne, <<3, 1>>}
\* terminals as floats: 0.0 or 1.0
TerminalEntries == {RZero, ROne}
\* log-probability differences of one step: without an action dimension a
\* ratio of 1/2, 1 or 2; with one (dim() == 3), two actions
LogDiffsDim2 == { <<-1>>, <<0>>, <<1>> }
LogDiffsDim3 == { <<-1, 1>>, <<0, 0>> }
\* <<minimum_importance_value, minimum_importance_policy>>
Clamps == { <<ROne, ROne>>, << <<2, 1>>, ROne>>, <<ROne, <<1, 2>> >> }

\* the arguments of a call on a trajectory of T steps, as compute_loss
\* builds them
VtraceArgs(T) ==
    { [dim |-> Len(l[1]) + 1,
       log_prob_diffs |-> l,
       terminals |-> tm,
       discount_terminal_mask |-> DiscountTerminalMask(tm),
       rewards |-> r,
       values |-> v,
       estimated_value |-> e,
       minimum_importance_value |-> c[1],
       minimum_importance_policy |-> c[2]] :
        l \in [1 .. T -> LogDiffsDim2] \cup [1 .. T -> LogDiffsDim3],
        tm \in [1 .. T -> TerminalEntries],
        r \in [1 .. T -> RewardEntries],
        v \in [1 .. T -> ValueEntries],
        e \in EstimatedValues,
        c \in Clamps }

InitVtrace ==
    /\ constructed = "ImpalaLearner"
    /\ last_call = "__init__"
    /\ raised = "none"
    /\ unknown_key = FALSE
    /\ RolloutIdle
    /\ LocalIdle
    /\ ReplayIdle
    /\ LearnerIdle
    /\ WorkerIdle
    /\ vt_ret = NoReturn
    /\ \E T \in 1 .. MaxSteps : vt_args \in VtraceArgs(T)

NextVtrace == ImpalaLearner_vtrace_returns

SpecVtrace == InitVtrace /\ [][NextVtrace]_vars

(* ------------------------------ Learner -------------------------------- *)
\* One learner, rank 0, and its workers, ranks 1, 2, ...  The methods of the
\* Learner are called by a driver, one call at a time.
\* Python's None; a list that a field holds in its place is kept as
\* [lists |-> the list]
None == [none |-> TRUE]
\* an experience buffer that holds nothing
EmptyExp == 0
NoMerge == [none |-> TRUE]
TypeErrorNone == "TypeError: 'NoneType' object is not iterable"

\* args.nb_env of the runs modelled
LearnerNbEnv == 2

LearnerArgs ==
    { [nb_env |-> LearnerNbEnv,
       nb_learn_batch |-> b,
       rank |-> 0,
       learner_ranks |-> <<0>>,
       worker_ranks |-> [i \in 1 .. w |-> i]] :
        b \in 1 .. MaxLearnBatch, w \in 1 .. MaxWorkers }

\* __init__: groups[worker_rank] is set for the pairs of this learner's rank
Groups(rank, learner_ranks, worker_ranks) ==
    IF \E i \in DOMAIN learner_ranks : learner_ranks[i] = rank
    THEN {worker_ranks[i] : i \in DOMAIN worker_ranks}
    ELSE {}

\* variant: the configured number is kept
NoReduction(nb_learn_batch, nb_worker) == nb_learn_batch
\* `if self.nb_learn_batch > self.nb_worker:
\*      self.nb_learn_batch = self.nb_worker`
EffectiveLearnBatch(nb_learn_batch, nb_worker) ==
    IF nb_learn_batch > nb_worker THEN nb_worker ELSE nb_learn_batch

\* Learner.__init__: sizes from the configured nb_learn_batch, then the
\* warning and the reduction
Learner_init ==
    /\ constructed = "Learner"
    /\ learner = NoLearner
    /\ LET a == learner_args
           groups == Groups(a.rank, a.learner_ranks, a.worker_ranks)
           nb_worker == Cardinality(groups)
       IN  /\ learner' =
                [nb_env |-> a.nb_env,
                 batch_size |-> a.nb_env * a.nb_learn_batch,
                 nb_learn_batch |->
                    EffectiveLearnBatch(a.nb_learn_batch, nb_worker),
                 nb_worker |-> nb_worker,
                 groups |-> groups,
                 exp |-> EmptyExp,
                 worker_exps |-> [i \in 1 .. a.nb_learn_batch |-> EmptyExp],
                 exp_handles |-> None]
           /\ learner_log' =
                [warnings |-> IF a.nb_learn_batch > nb_worker THEN 1 ELSE 0,
                 sync_ranks |-> << >>,
                 step_ranks |-> << >>,
                 cycles |-> 0,
                 steps_returned |-> 0,
                 optimizer_steps |-> 0,
                 merge |-> NoMerge]
    /\ learner_pc' = "idle"
    /\ recvs' = [issued |-> 0, pending |-> {}]
    /\ last_call' = "__init__"
    /\ raised' = "none"
    /\ UNCHANGED <<constructed, localVars, unknown_key, rolloutVars, replayVars,
                   vtraceVars, workerVars, learner_args>>

\* sync_exps(worker_ranks): buffer i starts an asynchronous receive from the
\* i-th rank; the lists of handles the syncs return are kept in exp_handles.
\* A handle is the serial number of its receive.
Learner_sync_exps(worker_ranks) ==
    /\ constructed = "Learner"
    /\ learner_pc = "idle"
    /\ learner_log.cycles < MaxCycles
    /\ \A i \in DOMAIN worker_ranks : worker_ranks[i] \in learner.groups
    /\ Len(worker_ranks) <= Len(learner.worker_exps)
    /\ LET handle(i) == recvs.issued + i
       IN  /\ recvs' =
                [issued |-> recvs.issued + Len(worker_ranks),
                 pending |-> recvs.pending \cup
                    { [id |-> handle(i), buf |-> i,
                       rank |-> worker_ranks[i]] :
                        i \in DOMAIN worker_ranks }]
           /\ learner' =
                [learner EXCEPT !.exp_handles =
                    [lists |->
                        [i \in DOMAIN worker_ranks |-> <<handle(i)>>]]]
    /\ learner_log' = [learner_log EXCEPT !.sync_ranks = worker_ranks,
                                          !.cycles = @ + 1]
    /\ last_call' = "sync_exps"
    /\ raised' = "none"
    /\ UNCHANGED <<constructed, localVars, unknown_key, rolloutVars, replayVars,
                   vtraceVars, workerVars, learner_args, learner_pc>>

\* a receive completes (its worker has sent): the data arrives in the buffer
Recv_completes ==
    /\ constructed = "Learner"
    /\ learner # NoLearner
    /\ \E h \in recvs.pending :
        /\ recvs' = [recvs EXCEPT !.pending = @ \ {h}]
        /\ learner' = [learner EXCEPT !.worker_exps[h.buf] = h.id]
    /\ UNCHANGED <<constructed, localVars,
                   last_call, raised, unknown_key, rolloutVars,
                   replayVars, vtraceVars, workerVars, learner_args, learner_pc,
                   learner_log>>

\* chain.from_iterable
RECURSIVE Flatten(_)
Flatten(lists) ==
    IF lists = << >> THEN << >> ELSE Head(lists) \o Flatten(Tail(lists))

\* the handles of `handles` whose receive has not completed
Unfinished(handles, pending) ==
    {handles[i] : i \in DOMAIN handles} \cap {h.id : h \in pending}

\* Learner.step, entry: iterating over exp_handles raises TypeError while it
\* is None; else the step waits on the handles
Learner_step_enter(worker_ranks) ==
    /\ constructed = "Learner"
    /\ learner_pc = "idle"
    /\ last_call' = "step"
    /\ IF learner.exp_handles = None
       THEN /\ raised' = TypeErrorNone
            /\ UNCHANGED <<learner_pc, learner_log>>
       ELSE /\ raised' = "none"
            /\ learner_pc' = "wait"
            /\ learner_log' = [learner_log EXCEPT !.step_ranks = worker_ranks]
    /\ UNCHANGED <<constructed, localVars, unknown_key, rolloutVars, replayVars,
                   vtraceVars, workerVars, learner_args, learner, recvs>>

\* variant: the step does not wait
NoWait(handles, pending) == TRUE
\* `for handle in chain.from_iterable(self.exp_handles): handle.wait()`
\* returns once every handle has completed
AllWaited(handles, pending) == Unfinished(handles, pending) = {}

\* variant: every receive buffer is merged
MergedAllBuffers(worker_exps, worker_ranks) == worker_exps
\* `[self.worker_exps[i] for i in range(len(worker_ranks))]`
MergedBuffers(worker_exps, worker_ranks) ==
    [i \in 1 .. Len(worker_ranks) |-> worker_exps[i]]

\* Learner.step once the waits have returned: the buffers are merged into
\* self.exp, the forward passes and the loss are computed on it, the
\* optimizer steps once, self.exp and every receive buffer are cleared
Learner_step_run ==
    /\ constructed = "Learner"
    /\ learner_pc = "wait"
    /\ AllWaited(Flatten(learner.exp_handles.lists), recvs.pending)
    /\ Len(learner_log.step_ranks) <= Len(learner.worker_exps)
    /\ LET merged == MergedBuffers(learner.worker_exps,
                                   learner_log.step_ranks)
       IN  learner_log' =
            [learner_log EXCEPT
                !.merge = [exp |-> merged,
                           unfinished |->
                              Unfinished(Flatten(learner.exp_handles.lists),
                                         recvs.pending),
                           handles |-> Flatten(learner.exp_handles.lists)],
                !.optimizer_steps = @ + 1,
                !.steps_returned = @ + 1]
    /\ learner' = [learner EXCEPT
                    !.exp = EmptyExp,
                    !.worker_exps = [i \in DOMAIN @ |-> EmptyExp]]
    /\ learner_pc' = "idle"
    /\ UNCHANGED <<constructed, localVars,
                   last_call, raised, unknown_key, rolloutVars,
                   replayVars, vtraceVars, workerVars, learner_args, recvs>>

\* the worker_ranks a driver hands over: nb_learn_batch different workers
\* of this learner
DriverRanks ==
    { r \in [1 .. learner.nb_learn_batch -> learner.groups] :
        \A i, j \in DOMAIN r : i # j => r[i] # r[j] }

\* the driver's cycle: sync_exps for nb_learn_batch workers, then step with
\* the same workers.  A step ahead of the first sync_exps is part of the
\* model.
Driver_sync_exps ==
    /\ learner # NoLearner
    /\ last_call # "sync_exps"
    /\ \E worker_ranks \in DriverRanks : Learner_sync_exps(worker_ranks)

Driver_step ==
    /\ learner # NoLearner
    /\ IF learner.exp_handles = None
       THEN \E worker_ranks \in DriverRanks :
                Learner_step_enter(worker_ranks)
       ELSE /\ last_call = "sync_exps"
            /\ Learner_step_enter(learner_log.sync_ranks)

InitLearner ==
    /\ constructed = "Learner"
    /\ last_call = "none"
    /\ raised = "none"
    /\ unknown_key = FALSE
    /\ RolloutIdle
    /\ LocalIdle
    /\ ReplayIdle
    /\ VtraceIdle
    /\ WorkerIdle
    /\ learner_args \in LearnerArgs
    /\ learner = NoLearner
    /\ learner_pc = "none"
    /\ recvs = NoLearner
    /\ learner_log = NoLearner

NextLearner ==
    \/ Learner_init
    \/ Driver_sync_exps
    \/ Driver_step
    \/ Learner_step_run
    \/ Recv_completes

SpecLearner == InitLearner /\ [][NextLearner]_vars

(* the recurrent state of the network, per environment slot *)
\* the keys of the recurrent state of the network
InternalKeys == {"hx", "cx"}
\* network.new_internals(device): the zero state of one environment slot
new_internals == [k \in InternalKeys |-> 0]
\* The recurrent state the network returns from a forward pass: a state other
\* than the zero state in every slot, whatever state went in.
NetworkForward(internals) ==
    [k \in DOMAIN internals |-> [i \in DOMAIN internals[k] |-> 1]]
\* listd_to_dlist([network.new_internals(device) for _ in range(nb_env)])
InitialInternals(n) ==
    [k \in InternalKeys |-> [i \in 1 .. n |-> new_internals[k]]]

\* variant: the slot after the terminal one is reset
ResetNextSlot(internals, terminals) ==
    [k \in DOMAIN internals |->
        [i \in DOMAIN internals[k] |->
            IF terminals[(i % Len(terminals)) + 1]
            THEN new_internals[k] ELSE internals[k][i]]]
\* `for i, terminal in enumerate(terminals): if terminal: for k, v in
\* new_internals(device).items(): internals[k][i] = v`
ResetTerminals(internals, terminals) ==
    [k \in DOMAIN internals |->
        [i \in DOMAIN internals[k] |->
            IF terminals[i] THEN new_internals[k] ELSE internals[k][i]]]

\* the terminal flags an environment step may return
TerminalVectors == {<<FALSE, FALSE>>, <<FALSE, TRUE>>, <<TRUE, FALSE>>,
                    <<TRUE, TRUE>>}
\* the same loop in Worker.step
WorkerResetTerminals(internals, terminals) ==
    [k \in DOMAIN internals |->
        [i \in DOMAIN internals[k] |->
            IF terminals[i] THEN new_internals[k] ELSE internals[k][i]]]

\* the parallel environments of a Worker
WorkerNbEnv == 2

(* ------------------------------- Worker -------------------------------- *)
\* One worker and its learner.  The methods of the Worker are called by a
\* driver, one call at a time, in any order.
\* len(self.exp): the steps one collection cycle writes
WorkerRolloutLen == 2
\* the handles network.sync returns, one per transferred tensor
NbNetworkHandles == 2

ClearedExp == [actor |-> 0, env |-> 0, next_obs |-> FALSE]

\* Worker.__init__: no handles yet
Worker_init ==
    /\ worker = [network_handles |-> None, exp |-> ClearedExp,
                 internals |-> InitialInternals(WorkerNbEnv),
                 terminals |-> [i \in 1 .. WorkerNbEnv |-> FALSE]]
    /\ worker_pc = "idle"
    /\ wire = [issued |-> 0, pending |-> {}]
    /\ worker_log = [steps |-> 0, syncs |-> 0, sends |-> 0, acts |-> 0,
                     acted_on_pending |-> {}]

\* sync_network(learner_rank): the asynchronous transfer of the weights
\* starts, its handles are stored in network_handles
Worker_sync_network ==
    /\ constructed = "Worker"
    /\ worker_pc = "idle"
    /\ worker_log.syncs < MaxWorkerCalls
    /\ LET handles == [i \in 1 .. NbNetworkHandles |-> wire.issued + i]
       IN  /\ worker' = [worker EXCEPT
                            !.network_handles = [lists |-> handles]]
           /\ wire' = [issued |-> wire.issued + NbNetworkHandles,
                       pending |-> wire.pending \cup
                            { [id |-> handles[i], kind |-> "network"] :
                                i \in DOMAIN handles }]
    /\ worker_log' = [worker_log EXCEPT !.syncs = @ + 1]
    /\ last_call' = "sync_network"
    /\ UNCHANGED <<constructed, localVars,
                   raised, unknown_key, rolloutVars, replayVars,
                   vtraceVars, learnerVars, worker_pc>>

\* sync_exp(learner_rank): the asynchronous send of self.exp starts; what
\* exp.sync returns is not kept
Worker_sync_exp ==
    /\ constructed = "Worker"
    /\ worker_pc = "idle"
    /\ worker_log.sends < MaxWorkerCalls
    /\ wire' = [issued |-> wire.issued + 1,
                pending |-> wire.pending \cup
                    { [id |-> wire.issued + 1, kind |-> "exp"] }]
    /\ worker_log' = [worker_log EXCEPT !.sends = @ + 1]
    /\ last_call' = "sync_exp"
    /\ UNCHANGED <<constructed, localVars,
                   raised, unknown_key, rolloutVars, replayVars,
                   vtraceVars, learnerVars, worker, worker_pc>>

\* a transfer completes
Transfer_completes ==
    /\ constructed = "Worker"
    /\ \E t \in wire.pending :
        wire' = [wire EXCEPT !.pending = @ \ {t}]
    /\ UNCHANGED <<constructed, localVars,
                   last_call, raised, unknown_key, rolloutVars,
                   replayVars, vtraceVars, learnerVars, worker, worker_pc,
                   worker_log>>

\* variant: the handles are never looked at
NeverTruthy(network_handles) == FALSE
\* `if self.network_handles:`: neither None nor an empty list
Truthy(network_handles) ==
    network_handles # None /\ network_handles.lists # << >>

\* Worker.step, entry: self.exp.clear(), then the test of the handles
Worker_step_enter ==
    /\ constructed = "Worker"
    /\ worker_pc = "idle"
    /\ worker_log.steps < MaxWorkerCalls
    /\ worker' = [worker EXCEPT !.exp = ClearedExp]
    /\ worker_pc' = IF Truthy(worker.network_handles)
                    THEN "wait" ELSE "loop"
    /\ worker_log' = [worker_log EXCEPT !.steps = @ + 1]
    /\ last_call' = "step"
    /\ UNCHANGED <<constructed, localVars,
                   raised, unknown_key, rolloutVars, replayVars,
                   vtraceVars, learnerVars, wire>>

\* `for h in self.network_handles: h.wait()` returns once every handle has
\* completed
Worker_step_waited ==
    /\ constructed = "Worker"
    /\ worker_pc = "wait"
    /\ AllWaited(worker.network_handles.lists, wire.pending)
    /\ worker_pc' = "loop"
    /\ UNCHANGED <<constructed, localVars,
                   last_call, raised, unknown_key, rolloutVars,
                   replayVars, vtraceVars, learnerVars, worker, wire,
                   worker_log>>

\* the handles stored in network_handles whose transfer is pending
PendingHandles(network_handles, pending) ==
    IF network_handles = None THEN {}
    ELSE Unfinished(network_handles.lists, pending)

\* one turn of `for _ in range(len(self.exp))`: actor.act, write_actor, the
\* environment step, write_env, the reset of the recurrent state
Worker_act ==
    /\ constructed = "Worker"
    /\ worker_pc = "loop"
    /\ worker.exp.env < WorkerRolloutLen
    /\ \E terminals \in TerminalVectors :
        LET internals == NetworkForward(worker.internals)
        IN  worker' = [worker EXCEPT
                          !.exp.actor = @ + 1, !.exp.env = @ + 1,
                          !.internals =
                              WorkerResetTerminals(internals, terminals),
                          !.terminals = terminals]
    /\ worker_log' =
        [worker_log EXCEPT
            !.acts = @ + 1,
            !.acted_on_pending =
                @ \cup PendingHandles(worker.network_handles, wire.pending)]
    /\ UNCHANGED <<constructed, localVars,
                   last_call, raised, unknown_key, rolloutVars,
                   replayVars, vtraceVars, learnerVars, worker_pc, wire>>

\* the loop is over: write_next_obs, return
Worker_step_return ==
    /\ constructed = "Worker"
    /\ worker_pc = "loop"
    /\ worker.exp.env = WorkerRolloutLen
    /\ worker' = [worker EXCEPT !.exp.next_obs = TRUE]
    /\ worker_pc' = "idle"
    /\ UNCHANGED <<constructed, localVars,
                   last_call, raised, unknown_key, rolloutVars,
                   replayVars, vtraceVars, learnerVars, wire, worker_log>>

InitWorker ==
    /\ constructed = "Worker"
    /\ last_call = "__init__"
    /\ raised = "none"
    /\ unknown_key = FALSE
    /\ RolloutIdle
    /\ LocalIdle
    /\ ReplayIdle
    /\ VtraceIdle
    /\ LearnerIdle
    /\ Worker_init

NextWorker ==
    \/ Worker_sync_network
    \/ Worker_sync_exp
    \/ Transfer_completes
    \/ Worker_step_enter
    \/ Worker_step_waited
    \/ Worker_act
    \/ Worker_step_return

SpecWorker == InitWorker /\ [][NextWorker]_vars

(* ======================= claims: rollout cache ========================= *)
IsPrefix(a, b) ==
    /\ Len(a) <= Len(b)
    /\ \A i \in 1 .. Len(a) : a[i] = b[i]

\* the fields write_env fills
EnvFields == {"states", "rewards", "terminals"}

\* is_ready() is false below the horizon and true at it, counting the
\* write_env calls since construction or the last clear()
ReadyFollowsWriteEnvCount ==
    /\ Len(env_log) < nb_rollout => ~ACRollout_is_ready(rollout, nb_rollout)
    /\ Len(env_log) = nb_rollout => ACRollout_is_ready(rollout, nb_rollout)

\* C1 as stated: from a fresh or just-cleared rollout cache, is_ready() is
\* false after fewer than nb_rollout write_env calls and true after exactly
\* nb_rollout of them, whatever write_forward calls are interleaved.
C1_ReadyWhateverForward ==
    constructed = "ACRollout" => ReadyFollowsWriteEnvCount

\* C1 amended: the same, whatever write_forward calls are interleaved that do
\* not carry the field 'rewards' (the list __len__ measures).
C1_ReadyUnlessForwardRewards ==
    (constructed = "ACRollout" /\ "rewards" \notin fwd_appended)
        => ReadyFollowsWriteEnvCount

C1_Witness ==
    /\ constructed = "ACRollout"
    /\ nb_rollout = 2
    /\ Len(env_log) = nb_rollout
    /\ "values" \in fwd_appended
    /\ "rewards" \notin fwd_appended
    /\ ACRollout_is_ready(rollout, nb_rollout)

\* C2: after clear(), in any reachable state, is_ready() is false and each of
\* the six field sequences has length 0.
C2_ClearEmptiesEveryField ==
    (constructed = "ACRollout" /\ last_call = "clear")
        => /\ ~ACRollout_is_ready(rollout, nb_rollout)
           /\ \A k \in RolloutFields :
                k \in DOMAIN rollout /\ Len(rollout[k]) = 0

C2_Witness ==
    /\ constructed = "ACRollout"
    /\ last_call = "clear"
    /\ nb_rollout = 1

\* C3: a write_forward whose mapping holds a field name the cache does not
\* declare fails with the 'Incompatible rollout key' KeyError; it is not
\* passed over in silence and the cache gains no field.
C3_UnknownKeyRaises ==
    (constructed = "ACRollout" /\ last_call = "write_forward" /\ unknown_key)
        => /\ raised = KeyErrorRollout
           /\ DOMAIN rollout = RolloutFields

C3_Witness ==
    /\ last_call = "write_forward"
    /\ unknown_key
    /\ raised = KeyErrorRollout
    /\ "values" \in fwd_appended

Detached(record) ==
    /\ record # NoSnap
    /\ \A k \in DOMAIN record : ~record[k].alias

\* C4 as stated: what a record returned by read() holds is changed by no later
\* write_env, write_forward or clear(), in any order.
C4_RecordNeverChanges ==
    snap # NoSnap => Contents(snap, rollout) = snap_at_read

\* C4 amended: what a record returned by read() holds is not changed by a
\* later clear(), nor by any write made after that clear(); a write made
\* before the next clear() appends to the record's lists, the entries the
\* record held when read() returned staying in place.
C4_RecordSurvivesClear ==
    /\ [](snap # NoSnap =>
            \A k \in DOMAIN snap :
                IsPrefix(snap_at_read[k], Contents(snap, rollout)[k]))
    /\ [][(snap # NoSnap /\ Detached(snap'))
            => Contents(snap', rollout') = Contents(snap, rollout)]_vars

C4_Witness ==
    /\ Detached(snap)
    /\ Len(snap_at_read["rewards"]) = 2
    /\ Contents(snap, rollout) = snap_at_read
    /\ Len(rollout["rewards"]) = 1

\* what read() returns records the write_env calls since the last clear(),
\* one entry per call, in order, the rewards normalized
RecordsEnvLog(contents) ==
    /\ \A k \in EnvFields : Len(contents[k]) = Len(env_log)
    /\ \A i \in 1 .. Len(env_log) :
            /\ contents["states"][i] = env_log[i].obs
            /\ contents["rewards"][i] = reward_normalizer(env_log[i].rewards)
            /\ contents["terminals"][i] = env_log[i].terminals

\* C6 as stated: after k write_env calls since the last clear(), read().states,
\* .rewards and .terminals have length k and their i-th entries are the
\* observation, the normalized rewards and the terminals of the i-th call.
C6_ReadRecordsEveryStep ==
    (last_call = "read" /\ snap # NoSnap)
        => RecordsEnvLog(Contents(snap, rollout))

\* C6 amended: the same, when no write_forward since the last clear() carried
\* one of the fields states, rewards, terminals.
C6_ReadRecordsStepsUnlessForwarded ==
    (last_call = "read" /\ snap # NoSnap /\ fwd_appended \cap EnvFields = {})
        => RecordsEnvLog(Contents(snap, rollout))

C6_Witness ==
    /\ last_call = "read"
    /\ snap # NoSnap
    /\ fwd_appended = {"values"}
    /\ Len(env_log) = 3
    /\ \A i \in 1 .. 2 : env_log[i].terminals = <<FALSE, FALSE>>
    /\ env_log[3].terminals = <<FALSE, TRUE>>
    /\ Contents(snap, rollout)["terminals"][3] = <<FALSE, TRUE>>
    /\ Contents(snap, rollout)["rewards"][3] = <<0, 1>>

(* ======================= claims: both caches =========================== *)
AllEmpty(c) == \A k \in DOMAIN c : c[k] = << >>

\* C5: clear() on an already-empty cache changes nothing and does not raise:
\* on the rollout cache a clear() of a cache whose lists are all empty leaves
\* the cache as it is; on the replay cache clear() leaves the stored
\* transitions, the keys, the cursor, the insertion count and the pre-fetch
\* queue as they are.
C5_ClearOnEmptyIsNoOp ==
    /\ [][(ACRollout_clear /\ AllEmpty(rollout))
            => /\ rollout' = rollout
               /\ nb_rollout' = nb_rollout
               /\ raised' = "none"]_vars
    /\ [][ExperienceReplay_clear
            => /\ UNCHANGED <<store, keys, current_index, num_inserted,
                              cached_rollout>>
               /\ raised' = "none"]_vars

C5_Witness ==
    /\ constructed = "ExperienceReplay"
    /\ last_call = "clear"
    /\ raised = "none"
    /\ num_inserted = 0
    /\ \A i \in DOMAIN store : store[i] = 0

(* ======================= claims: replay cache ========================== *)
\* C7: the cursor is the insertion count modulo the capacity and lies in
\* 0 .. max_len - 1; write_env puts the transition into the slot the cursor
\* named before the call, moves the cursor one on modulo max_len and counts
\* one insertion; write_forward, read and clear leave cursor and count alone.
C7_CursorIsCountModCapacity ==
    /\ [](constructed = "ExperienceReplay"
            => /\ 0 <= current_index
               /\ current_index < max_len
               /\ current_index = num_inserted % max_len)
    /\ [][ExperienceReplay_write_env(num_inserted + 1)
            => /\ store'[current_index] = num_inserted + 1
               /\ \A i \in DOMAIN store \ {current_index} :
                        store'[i] = store[i]
               /\ current_index' = (current_index + 1) % max_len
               /\ num_inserted' = num_inserted + 1]_vars
    /\ [][(\/ \E kwargs \in KwargSets : ExperienceReplay_write_forward(kwargs)
           \/ ExperienceReplay_read
           \/ ExperienceReplay_clear)
            => UNCHANGED <<current_index, num_inserted>>]_vars

C7_Witness ==
    /\ constructed = "ExperienceReplay"
    /\ last_call = "write_env"
    /\ max_len = 4
    /\ num_inserted = 9
    /\ current_index = 1
    /\ store[0] = 9
    /\ store[1] = 6

\* every batch _read has drawn indices for: the batches in the pre-fetch
\* queue, the batch the caller's last read() returned, and the one the thread
\* is gathering
BatchesDrawn ==
    {cached_rollout[i] : i \in 1 .. Len(cached_rollout)}
        \cup ({ret, thread_sample} \ {NoBatch})

\* C8: every start index s _read draws satisfies 0 <= s < length - rollout_len
\* - 2, length being min(_num_inserted, max_len) when it was drawn, and the
\* end index s + rollout_len is at most length - 2.
C8_SampledIndicesInRange ==
    \A b \in BatchesDrawn :
        /\ b.length <= Min(num_inserted, max_len)
        /\ Len(b.start_indexes) = batch_size
        /\ \A i \in 1 .. batch_size :
            /\ 0 <= b.start_indexes[i]
            /\ b.start_indexes[i] < b.length - rollout_len - 2
            /\ b.end_indexes[i] = b.start_indexes[i] + rollout_len
            /\ b.end_indexes[i] <= b.length - 2

C8_Witness ==
    /\ ExperienceReplay_is_ready(num_inserted)
    /\ Len(cached_rollout) = 3
    /\ cached_rollout[1].start_indexes = <<1>>
    /\ cached_rollout[2].start_indexes = <<0>>
    /\ thread_pc = "in_read"
    /\ thread_sample.start_indexes = <<1>>

\* C9: for every window drawn, the index of the bootstrap sample, end index
\* + 1, is below length, and write_env has written that slot.
C9_BootstrapSlotWritten ==
    \A b \in BatchesDrawn :
        \A i \in 1 .. Len(b.end_indexes) :
            /\ b.end_indexes[i] + 1 < b.length
            /\ b.end_indexes[i] + 1 \in DOMAIN store
            /\ store[b.end_indexes[i] + 1] # 0

C9_Witness ==
    /\ last_call = "read"
    /\ raised = "none"
    /\ max_len = 5
    /\ num_inserted = 4
    /\ ret # NoBatch
    /\ ret.length = 4
    /\ ret.end_indexes[1] + 1 = 2

\* C10 as stated: is_ready() is true exactly when _num_inserted exceeds 100,
\* and whenever it is true the range [0, length - rollout_len - 2) start
\* indices are drawn from is not empty, whatever the constructor was given.
C10_ReadyMakesSamplingValid ==
    constructed = "ExperienceReplay"
        => /\ ExperienceReplay_is_ready(num_inserted) <=> num_inserted > 100
           /\ ExperienceReplay_is_ready(num_inserted)
                => Min(num_inserted, max_len) - rollout_len - 2 > 0

(* ===================== claims: pre-fetch queue ========================= *)
\* a step of the caller's read(): the steps of the thread all move thread_pc,
\* the caller's other calls set last_call to their own name
ReplayReadStep ==
    /\ constructed = "ExperienceReplay"
    /\ last_call' = "read"
    /\ UNCHANGED <<replayData, replayThread>>

\* C11 as stated: whenever the pre-fetch queue holds at least one batch,
\* read() removes and returns the oldest batch of the queue; it takes the
\* cache-miss path (the queue is left as it is, _read is called) only when
\* the queue is empty.
C11_ReadPopsOldestUnlessEmpty ==
    [][ReplayReadStep =>
          /\ Len(cached_rollout) >= 1 =>
                /\ ret' = Head(cached_rollout)
                /\ cached_rollout' = Tail(cached_rollout)
          /\ cached_rollout' = cached_rollout => Len(cached_rollout) = 0]_vars

\* C12: under every interleaving of _cache_loop with the caller's read() and
\* write_env, the pre-fetch queue never holds more than max_cache batches,
\* and the producer appends no batch while is_ready() is false.
C12_QueueWithinDepth ==
    constructed = "ExperienceReplay" =>
        /\ Len(cached_rollout) <= max_cache
        /\ ~ExperienceReplay_is_ready(num_inserted) =>
                /\ Len(cached_rollout) = 0
                /\ thread_pc = "while_not_ready"

C12_Witness ==
    /\ constructed = "ExperienceReplay"
    /\ Len(cached_rollout) = max_cache
    /\ thread_pc = "while_true"
    /\ last_call = "write_env"

\* C13 as stated: under fair scheduling of the thread, if the caller stops
\* reading, then from some point on a cache that is ready has max_cache
\* batches in its queue (the queue is refilled after each read(), the thread
\* produces for the whole life of the cache).
C13_QueueEventuallyRefilled ==
    (<>[][~ReplayReadStep]_vars) =>
        <>[](ExperienceReplay_is_ready(num_inserted)
                => Len(cached_rollout) = max_cache)

(* ========================== claims: V-trace ============================ *)
\* C14: if minimum_importance_value != 1 or minimum_importance_policy != 1
\* the call raises NotImplementedError and returns nothing; with both equal
\* to 1 it returns a result.
C14_NonUnitClampsRaise ==
    (constructed = "ImpalaLearner" /\ last_call = "_vtrace_returns") =>
        IF vt_args.minimum_importance_value # ROne
            \/ vt_args.minimum_importance_policy # ROne
        THEN raised = "NotImplementedError" /\ vt_ret = NoReturn
        ELSE /\ raised = "none"
             /\ vt_ret # NoReturn
             /\ Len(vt_ret.v_s) = Len(vt_args.rewards)

C14_Witness ==
    /\ last_call = "_vtrace_returns"
    /\ vt_args.minimum_importance_value # ROne
    /\ vt_args.minimum_importance_policy = ROne
    /\ raised = "NotImplementedError"

\* reward + discount_mask * bootstrap_value of the final step
BoundaryTarget(a) ==
    LET T == Len(a.rewards)
    IN  RAdd(a.rewards[T],
             RMul(a.discount_terminal_mask[T], a.estimated_value))

\* C15 as stated: with both clamps 1, for every sequence of importance
\* ratios, the V-trace target of the final step is reward + discount_mask *
\* bootstrap_value of that step.
C15_FinalTargetIsBoundary ==
    (last_call = "_vtrace_returns" /\ raised = "none") =>
        vt_ret.v_s[Len(vt_args.rewards)] = BoundaryTarget(vt_args)

\* the ratio of the final step, as the value correction uses it: clamped at
\* 1 and averaged over the actions
FinalClampedRatio(a) ==
    LET T == Len(a.rewards)
        clamped == [k \in DOMAIN a.log_prob_diffs[T] |->
                      ClampMax(Exp(a.log_prob_diffs[T][k]), ROne)]
    IN  Mean(clamped)

\* C15 amended: with both clamps 1, the V-trace target of the final step is
\* value + c * (reward + discount_mask * bootstrap_value - value), c being
\* the final step's importance ratio clamped at 1 (averaged over the
\* actions); it is reward + discount_mask * bootstrap_value when that
\* ratio is at least 1.
C15_FinalTargetIsClampedBoundary ==
    (last_call = "_vtrace_returns" /\ raised = "none") =>
        LET T == Len(vt_args.rewards)
            c == FinalClampedRatio(vt_args)
        IN  /\ vt_ret.v_s[T] =
                  RAdd(vt_args.values[T],
                       RMul(c, RSub(BoundaryTarget(vt_args),
                                    vt_args.values[T])))
            /\ c = ROne => vt_ret.v_s[T] = BoundaryTarget(vt_args)

C15_Witness ==
    /\ last_call = "_vtrace_returns"
    /\ raised = "none"
    /\ Len(vt_args.rewards) = 2
    /\ vt_args.log_prob_diffs = << <<-1>>, <<1>> >>
    /\ vt_args.terminals[2] = RZero
    /\ vt_ret.v_s[2] # vt_args.values[2]

\* the n-step bootstrapped return: G_T = bootstrap_value,
\* G_t = reward_t + discount_mask_t * G_{t+1}
RECURSIVE NstepReturn(_, _)
NstepReturn(a, t) ==
    IF t > Len(a.rewards) THEN a.estimated_value
    ELSE RAdd(a.rewards[t],
              RMul(a.discount_terminal_mask[t], NstepReturn(a, t + 1)))

OnPolicy(a) ==
    \A t \in DOMAIN a.log_prob_diffs :
        \A k \in DOMAIN a.log_prob_diffs[t] : a.log_prob_diffs[t][k] = 0

\* C16: when every importance ratio is 1 and both clamps are 1, the V-trace
\* target of every step t is the n-step bootstrapped return G_t, for every
\* trajectory length and every placement of terminal steps.
C16_OnPolicyIsNstepReturn ==
    (last_call = "_vtrace_returns" /\ raised = "none"
        /\ OnPolicy(vt_args)) =>
        \A t \in 1 .. Len(vt_args.rewards) :
            vt_ret.v_s[t] = NstepReturn(vt_args, t)

C16_Witness ==
    /\ last_call = "_vtrace_returns"
    /\ raised = "none"
    /\ OnPolicy(vt_args)
    /\ Len(vt_args.rewards) = 2
    /\ vt_args.terminals = <<RZero, ROne>>
    /\ vt_args.rewards = <<ROne, ROne>>
    /\ vt_ret.v_s = << <<3, 2>>, ROne >>

(* ========================== claims: Learner ============================ *)
\* C17: constructing a Learner with nb_learn_batch above the number of its
\* workers logs a warning, does not raise, and leaves nb_learn_batch equal
\* to the number of workers; an nb_learn_batch that is not above it is
\* left unchanged.
C17_LearnBatchReducedToWorkers ==
    (constructed = "Learner" /\ learner # NoLearner) =>
        LET configured == learner_args.nb_learn_batch
            workers == Len(learner_args.worker_ranks)
        IN  /\ last_call = "__init__" => raised = "none"
            /\ configured > workers =>
                /\ learner.nb_learn_batch = workers
                /\ learner_log.warnings = 1
            /\ configured <= workers =>
                /\ learner.nb_learn_batch = configured
                /\ learner_log.warnings = 0

C17_Witness ==
    /\ constructed = "Learner"
    /\ learner # NoLearner
    /\ last_call = "__init__"
    /\ learner_args.nb_learn_batch = 5
    /\ Len(learner_args.worker_ranks) = 3
    /\ learner.nb_learn_batch = 3
    /\ learner_log.warnings = 1

\* C19: in every Learner.step, every handle the preceding sync_exps returned
\* has been waited on (its receive has completed) before a worker buffer is
\* merged, every buffer merged is one that sync_exps started a receive for
\* and holds what that receive brought, and a step with no preceding
\* sync_exps raises and merges nothing.
C19_HandlesWaitedBeforeMerge ==
    (constructed = "Learner" /\ learner # NoLearner) =>
        /\ learner_log.merge # NoMerge =>
            LET m == learner_log.merge
            IN  /\ m.unfinished = {}
                /\ Len(m.exp) <= Len(m.handles)
                /\ \A i \in DOMAIN m.exp : m.exp[i] = m.handles[i]
        /\ learner.exp_handles = None =>
            /\ learner_log.merge = NoMerge
            /\ learner_log.optimizer_steps = 0
            /\ learner_pc = "idle"

C19_Witness ==
    /\ constructed = "Learner"
    /\ learner # NoLearner
    /\ learner_log.merge # NoMerge
    /\ learner_log.merge.exp = <<3, 4>>
    /\ learner_log.merge.handles = <<3, 4>>
    /\ learner_log.sync_ranks = <<2, 1>>
    /\ learner_log.steps_returned = 2

\* C20: the learner performs exactly one optimizer step per Learner.step,
\* on a batch into which the experience of nb_learn_batch worker
\* contributions has been merged, and the batch buffer and every per-worker
\* receive buffer are cleared afterwards.
C20_OneOptimizerStepPerBatch ==
    [][(constructed = "Learner" /\ learner # NoLearner
            /\ learner_log'.steps_returned # learner_log.steps_returned) =>
        /\ learner_log'.steps_returned = learner_log.steps_returned + 1
        /\ learner_log'.optimizer_steps = learner_log.optimizer_steps + 1
        /\ learner_log'.optimizer_steps = learner_log'.steps_returned
        /\ Len(learner_log'.merge.exp) = learner.nb_learn_batch
        /\ \A i \in DOMAIN learner_log'.merge.exp :
                learner_log'.merge.exp[i] # EmptyExp
        /\ learner'.exp = EmptyExp
        /\ \A i \in DOMAIN learner'.worker_exps :
                learner'.worker_exps[i] = EmptyExp]_vars

C20_Witness ==
    /\ constructed = "Learner"
    /\ learner # NoLearner
    /\ learner_args.nb_learn_batch = 3
    /\ learner.nb_learn_batch = 2
    /\ learner_log.optimizer_steps = 2
    /\ learner_log.merge # NoMerge
    /\ Len(learner_log.merge.exp) = 2
    /\ learner_pc = "idle"
    /\ learner.worker_exps = <<EmptyExp, EmptyExp, EmptyExp>>

----------------------------------------------------------------------------
\* Rollout cache: readiness after the horizon, failed write_forward

\* C21: once the number of write_env calls since the last clear() has reached
\* the horizon nb_rollout, is_ready() is true, and it stays true after further
\* write_env calls until clear() is called.
C21_ReadyPersists ==
    (constructed = "ACRollout" /\ Len(env_log) >= nb_rollout
         /\ "rewards" \notin fwd_appended)
        => ACRollout_is_ready(rollout, nb_rollout)

\* A write_forward call that has just raised the incompatible-key error.
ForwardRaisedStep ==
    /\ constructed = "ACRollout"
    /\ last_call' = "write_forward"
    /\ raised' = KeyErrorRollout
    /\ <<rollout, last_call, raised, forwarded>>
           # <<rollout, last_call, raised, forwarded>>'

\* C26 as stated: a write_forward call that raises for an undeclared key
\* leaves every field of the cache as it was before the call.
C26_FailedForwardChangesNothing ==
    [][ForwardRaisedStep => rollout' = rollout]_vars

\* C26, amended: a write_forward call that raises for an undeclared key has
\* appended one element to each field its mapping names before the first
\* undeclared key and has left every other field as it was; the cache is as
\* before the call exactly when the undeclared key comes first.
C26_FailedForwardKeepsPrefix ==
    [][ForwardRaisedStep
        => /\ DOMAIN rollout' = DOMAIN rollout
           /\ (rollout' = rollout) = (forwarded' = {})
           /\ \A k \in DOMAIN rollout :
                 /\ k \in forwarded'
                      => /\ Len(rollout'[k]) = Len(rollout[k]) + 1
                         /\ SubSeq(rollout'[k], 1, Len(rollout[k]))
                               = rollout[k]
                 /\ k \notin forwarded' => rollout'[k] = rollout[k]]_vars

\* a write_forward has raised after it appended to a declared field
C26_Witness ==
    /\ constructed = "ACRollout"
    /\ last_call = "write_forward"
    /\ raised = KeyErrorRollout
    /\ forwarded # {}
    /\ \E k \in forwarded : Len(rollout[k]) > 0

(* ------------------------ Local (container/local.py) ------------------- *)
\* the parallel environments of the environment manager
LocalNbEnv == 2

\* what the actor hands to write_forward: the fields of the actor-critic
ActorExperience ==
    << <<"values", ForwardValue>>, <<"log_probs", ForwardValue>>,
       <<"entropies", ForwardValue>> >>

\* The agent of a Local owns the rollout cache and passes the calls of the
\* container on to it.
Agent_act(c) == WriteForwardResult(c, ActorExperience)
Agent_observe(c, obs, rewards, terminals) ==
    WriteEnvResult(c, obs, rewards, terminals)
Agent_is_ready(c, n) == ACRollout_is_ready(c, n)
Agent_clear(c) == ClearResult(c, NoSnap).cache
\* ActorCritic.compute_loss hands exp_cache.read() to the learner
Agent_compute_loss(c) == Contents(ReadResult(c), c)

\* what environment.step returns: <<observation, rewards, terminals>>
LocalEnvSteps == {<<"oa", <<1, 0>>, t>> : t \in TerminalVectors}

\* Local.run up to the loop: the counters set, the recurrent state of every
\* slot the zero state; the agent's rollout cache is new
Local_run ==
    /\ local = [internals |-> InitialInternals(LocalNbEnv),
                terminals |-> [i \in 1 .. LocalNbEnv |-> FALSE],
                batch |-> NoBatch,
                local_step_count |-> 0,
                env_steps |-> 0,
                optimizer_steps |-> 0,
                read_lengths |-> {}]
    /\ local_pc = "while"

\* one turn of the loop up to the test of is_ready: agent.act, the
\* environment step, agent.observe, the reset of the recurrent state, the
\* step count
Local_collect ==
    /\ constructed = "Local"
    /\ local_pc = "while"
    /\ local.local_step_count < MaxIterations * LocalNbEnv
    /\ \E s \in LocalEnvSteps :
        LET internals == NetworkForward(local.internals)
            r == Agent_act(rollout)
        IN  /\ rollout' = Agent_observe(r.cache, s[1], s[2], s[3])
            /\ raised' = r.raised
            /\ local' = [local EXCEPT
                            !.internals = ResetTerminals(internals, s[3]),
                            !.terminals = s[3],
                            !.local_step_count = @ + LocalNbEnv,
                            !.env_steps = @ + 1]
    /\ local_pc' = "is_ready"
    /\ last_call' = "observe"
    /\ UNCHANGED <<constructed, unknown_key, nb_rollout, snap, snap_at_read,
                   env_log, fwd_appended, forwarded, replayVars, vtraceVars,
                   learnerVars, workerVars>>

\* `if self.agent.is_ready():`
Local_is_ready ==
    /\ constructed = "Local"
    /\ local_pc = "is_ready"
    /\ local_pc' = IF Agent_is_ready(rollout, nb_rollout)
                   THEN "compute_loss" ELSE "while"
    /\ last_call' = "is_ready"
    /\ UNCHANGED <<constructed, raised, unknown_key, rolloutVars, replayVars,
                   vtraceVars, learnerVars, workerVars, local>>

\* agent.compute_loss: the cache is read
Local_compute_loss ==
    /\ constructed = "Local"
    /\ local_pc = "compute_loss"
    /\ local' = [local EXCEPT
                    !.batch = Agent_compute_loss(rollout),
                    !.read_lengths = @ \cup {ACRollout_len(rollout)}]
    /\ local_pc' = "optimizer_step"
    /\ last_call' = "compute_loss"
    /\ UNCHANGED <<constructed, raised, unknown_key, rolloutVars, replayVars,
                   vtraceVars, learnerVars, workerVars>>

\* zero_grad, backward, optimizer.step
Local_optimizer_step ==
    /\ constructed = "Local"
    /\ local_pc = "optimizer_step"
    /\ local' = [local EXCEPT !.optimizer_steps = @ + 1]
    /\ local_pc' = "clear"
    /\ last_call' = "optimizer.step"
    /\ UNCHANGED <<constructed, raised, unknown_key, rolloutVars, replayVars,
                   vtraceVars, learnerVars, workerVars>>

\* agent.clear(), the recurrent state detached from the graph (its values
\* stay); the batch of this turn is let go of
Local_clear ==
    /\ constructed = "Local"
    /\ local_pc = "clear"
    /\ rollout' = Agent_clear(rollout)
    /\ local' = [local EXCEPT !.batch = NoBatch]
    /\ local_pc' = "while"
    /\ last_call' = "clear"
    /\ UNCHANGED <<constructed, raised, unknown_key, nb_rollout, snap,
                   snap_at_read, env_log, fwd_appended, forwarded,
                   replayVars, vtraceVars, learnerVars, workerVars>>

InitLocal ==
    /\ constructed = "Local"
    /\ last_call = "run"
    /\ raised = "none"
    /\ unknown_key = FALSE
    /\ rollout = [k \in RolloutFields |-> << >>]
    /\ nb_rollout \in 1 .. MaxRollout
    /\ snap = NoSnap /\ snap_at_read = NoSnap
    /\ env_log = << >> /\ fwd_appended = {} /\ forwarded = {}
    /\ ReplayIdle
    /\ VtraceIdle
    /\ LearnerIdle
    /\ WorkerIdle
    /\ Local_run

NextLocal ==
    \/ Local_collect
    \/ Local_is_ready
    \/ Local_compute_loss
    \/ Local_optimizer_step
    \/ Local_clear

SpecLocal == InitLocal /\ [][NextLocal]_vars

----------------------------------------------------------------------------
\* Local training loop

\* C22: in Local.run with a rollout cache no field of the cache is ever
\* longer than rollout_len, the cache is read only at length rollout_len,
\* and at the top of every turn of the loop the cache holds exactly the
\* environment steps made since the last optimizer step, fewer than
\* rollout_len: it was cleared after the learning step, and one optimizer
\* step has been made per rollout_len environment steps.
C22_OneLearningStepPerRollout ==
    constructed = "Local" =>
        /\ \A k \in DOMAIN rollout : Len(rollout[k]) <= nb_rollout
        /\ local.read_lengths \subseteq {nb_rollout}
        /\ local.batch # NoBatch
             => \A k \in DOMAIN local.batch :
                    Len(local.batch[k]) = nb_rollout
        /\ local_pc = "while"
             => /\ ACRollout_len(rollout) < nb_rollout
                /\ ACRollout_len(rollout) =
                      local.env_steps - local.optimizer_steps * nb_rollout
                /\ local.optimizer_steps = local.env_steps \div nb_rollout

\* two learning steps over a horizon of two steps have been made
C22_Witness ==
    /\ constructed = "Local"
    /\ nb_rollout = 2
    /\ local_pc = "while"
    /\ local.optimizer_steps = 2
    /\ local.read_lengths = {2}

(* ----------------- the two containers that step environments ----------- *)
InitContainers == InitLocal \/ InitWorker
NextContainers == NextLocal \/ NextWorker
SpecContainers == InitContainers /\ [][NextContainers]_vars

----------------------------------------------------------------------------
\* Recurrent state

\* an environment step of Local.run has been recorded
LocalEnvStep ==
    constructed = "Local" /\ local'.env_steps = local.env_steps + 1
\* an environment step of Worker.step has been recorded
WorkerEnvStep ==
    constructed = "Worker" /\ worker_log'.acts = worker_log.acts + 1

\* C25: after each environment step in Local.run and in Worker.step every
\* internal-state key of every slot whose terminal flag is set holds the
\* network's zero state, and the state of every other slot is the one the
\* actor returned for that step.
C25_TerminalSlotsReset ==
    [][/\ LocalEnvStep =>
            \A k \in InternalKeys : \A i \in 1 .. LocalNbEnv :
                local'.internals[k][i] =
                    IF local'.terminals[i] THEN new_internals[k]
                    ELSE NetworkForward(local.internals)[k][i]
       /\ WorkerEnvStep =>
            \A k \in InternalKeys : \A i \in 1 .. WorkerNbEnv :
                worker'.internals[k][i] =
                    IF worker'.terminals[i] THEN new_internals[k]
                    ELSE NetworkForward(worker.internals)[k][i]]_vars

\* a step of a Worker ended the episode of the first slot only
C25_Witness ==
    /\ constructed = "Worker"
    /\ worker_log.acts >= 2
    /\ worker.terminals = <<TRUE, FALSE>>
    /\ \A k \in InternalKeys :
          worker.internals[k][1] = new_internals[k]
          /\ worker.internals[k][2] # new_internals[k]

----------------------------------------------------------------------------
\* Replay cache: what a batch holds

\* the batches _read has gathered: those in the pre-fetch queue and the one
\* the caller's read() just returned
BatchesGathered ==
    {cached_rollout[i] : i \in 1 .. Len(cached_rollout)}
        \cup ({ret} \ {NoBatch})

\* C23: every window _read returns holds rollout_len transitions that
\* rollout_len consecutive write_env calls inserted, in insertion order, and
\* its bootstrap sample is the transition inserted next after them, also
\* after the write cursor has wrapped around.
C23_WindowsContiguous ==
    constructed = "ExperienceReplay" =>
        \A b \in BatchesGathered :
            \A i \in DOMAIN b.window :
                /\ \A j \in 1 .. rollout_len - 1 :
                        b.window[i][j + 1] = b.window[i][j] + 1
                /\ b.last[i] = b.window[i][rollout_len] + 1

----------------------------------------------------------------------------
\* V-trace: the policy-gradient advantage

\* min(ratio, 1) of one step and action
RatioAtMostOne(a, t, k) ==
    LET ratio == Exp(a.log_prob_diffs[t][k])
    IN  IF RLess(ROne, ratio) THEN ROne ELSE ratio

\* the V-trace target of the step after t: the returned target of step
\* t + 1, the bootstrap value after the final step
NextTarget(a, r, t) ==
    IF t = Len(a.rewards) THEN a.estimated_value ELSE r.v_s[t + 1]

\* C24: with both clamps 1 the advantage returned for every step t (and
\* every action) is min(ratio_t, 1) * (reward_t + discount_mask_t * vs_{t+1}
\* - value_t), vs_{t+1} being the returned target of step t + 1 and the
\* bootstrap value for the final step; for a terminal step it is min(ratio_t,
\* 1) * (reward_t - value_t), whatever the later steps are.
C24_AdvantageFromNextTarget ==
    (last_call = "_vtrace_returns" /\ raised = "none") =>
        \A t \in 1 .. Len(vt_args.rewards) :
            \A k \in DOMAIN vt_args.log_prob_diffs[t] :
                /\ vt_ret.weighted_advantage[t][k] =
                      RMul(RatioAtMostOne(vt_args, t, k),
                           RSub(RAdd(vt_args.rewards[t],
                                     RMul(vt_args.discount_terminal_mask[t],
                                          NextTarget(vt_args, vt_ret, t))),
                                vt_args.values[t]))
                /\ vt_args.terminals[t] = ROne =>
                      vt_ret.weighted_advantage[t][k] =
                          RMul(RatioAtMostOne(vt_args, t, k),
                               RSub(vt_args.rewards[t], vt_args.values[t]))

\* a terminal first step with a ratio above 1, followed by a step that is not
\* terminal and whose target is not its value
C24_Witness ==
    /\ last_call = "_vtrace_returns"
    /\ raised = "none"
    /\ Len(vt_args.rewards) = 2
    /\ vt_args.terminals = <<ROne, RZero>>
    /\ vt_args.log_prob_diffs = << <<1>>, <<-1>> >>
    /\ vt_ret.weighted_advantage[1][1] = <<-1, 1>>
    /\ vt_ret.weighted_advantage[2][1] # RZero
    /\ vt_ret.v_s[2] # vt_args.values[2]

----------------------------------------------------------------------------
\* Worker: the experience buffer while its send is in flight

\* an asynchronous send of the experience buffer has not completed
ExpSendInFlight ==
    constructed = "Worker" /\ \E t \in wire.pending : t.kind = "exp"

\* C27: between a sync_exp call and the completion of the send it started,
\* the worker neither clears nor writes its experience buffer.
C27_ExpUntouchedWhileSent ==
    [][ExpSendInFlight => worker'.exp = worker.exp]_vars

----------------------------------------------------------------------------
\* Replay cache: the keys _read looks up

\* the keys the dict has once the Acer agent has made a step: those of
\* __init__, of its write_forward and of write_env
AcerKeys == {"rewards", "terminals"} \cup AcerKwargs \cup ObsKeys

\* C28: in every state the Acer agent's write_forward(log_probs, actions,
\* internals) and write_env calls lead to in which is_ready() is true, every
\* key _read looks up is a key of the cache, so that neither read() nor the
\* pre-fetch thread fails on a missing key.
C28_AcerKeysSufficeForRead ==
    (constructed = "ExperienceReplay"
        /\ ExperienceReplay_is_ready(num_inserted)
        /\ keys = AcerKeys)
        => /\ GatherRaises(keys) = "none"
           /\ raised \notin {KeyErrorObs, KeyErrorInternals}
           /\ thread_raised \notin {KeyErrorObs, KeyErrorInternals}

----------------------------------------------------------------------------
\* Learner: sizes after the reduction

\* C29: after the construction of a Learner batch_size is nb_env *
\* nb_learn_batch and there are nb_learn_batch receive buffers, also when
\* nb_learn_batch was reduced to the number of workers.
C29_SizedByEffectiveBatch ==
    (constructed = "Learner" /\ learner # NoLearner) =>
        /\ learner.batch_size = learner.nb_env * learner.nb_learn_batch
        /\ Len(learner.worker_exps) = learner.nb_learn_batch

----------------------------------------------------------------------------
\* Replay cache: writes while the thread gathers

\* the slots the _read of the thread is about to take: those of its windows
\* and of their bootstrap samples
ThreadSlots ==
    UNION { (thread_sample.start_indexes[i]
                .. thread_sample.end_indexes[i] - 1)
                \cup {thread_sample.end_indexes[i] + 1} :
            i \in DOMAIN thread_sample.start_indexes }

\* the caller has made a write_env or write_forward call; both write the slot
\* at the cursor
CallerWrites ==
    /\ last_call' \in {"write_env", "write_forward"}
    /\ <<last_call, num_inserted, keys, ret>>
          # <<last_call, num_inserted, keys, ret>>'

\* C30: while the thread is inside _read, between drawing its indices and
\* the end of its gathers, no write_env or write_forward of the caller writes
\* a slot of a window it drew or of its bootstrap sample, also after the
\* cursor has wrapped around.
C30_NoWriteIntoSampledSlots ==
    [][(constructed = "ExperienceReplay" /\ thread_pc = "in_read"
            /\ CallerWrites)
        => current_index \notin ThreadSlots]_vars


====
